---- MODULE Spec2Model ----
(***************************************************************************)
(* Model of the quantum demonstration scripts:                            *)
(*   src/src/algorithms/quantum_text_encoding.py  (chunked text codec)     *)
(*   src/src/algorithms/quantum_sort.py           (bubble sort)            *)
(*                                                                         *)
(* A text is a sequence of code points, a bit string a sequence of 0/1.    *)
(* A Python exception is the value Raise inside a result.                  *)
(***************************************************************************)
EXTENDS Integers, Sequences, FiniteSets

VARIABLES
    prog,           \* the entry point that was called
    pc,             \* position inside it
    message,        \* quantum_text_encoding: message / text_to_binary: text
    chunk_size,     \* quantum_text_encoding: chunk_size
    i,              \* loop index (process_message_chunks: i, quantum_bubble_sort: i)
    chunks,         \* the slices message[i:i + chunk_size] taken so far, in order
    executed,       \* the circuits handed to execute(), in call order
    segments,       \* the chunk_binary values returned by process_chunk, in order
    circuits,       \* process_message_chunks: circuits
    result_binary,  \* process_message_chunks: result_binary / binary_to_text: binary
    decoded,        \* quantum_text_encoding: decoded_message
    raised,         \* TRUE once an exception left the entry point
    cmpA, cmpB,     \* arguments of the last quantum_compare call
    cmpRes,         \* its return value
    compares,       \* number of quantum_compare calls made
    heap,           \* list objects: heap[ref] is the list's content
    array_sorted,   \* quantum_bubble_sort: reference held by array_sorted
    n,              \* quantum_bubble_sort: n
    j,              \* quantum_bubble_sort: j
    arr0,           \* content of the caller's list at the time of the call
    returned        \* reference returned by quantum_bubble_sort (0: none yet)

vars == << prog, pc, message, chunk_size, i, chunks, executed, segments,
           circuits, result_binary, decoded, raised, cmpA, cmpB, cmpRes,
           compares, heap, array_sorted, n, j, arr0, returned >>

----------------------------------------------------------------------------
(* Bounds of the model *)

MaxLen == 3        \* longest message
MaxChunk == 4      \* largest chunk_size
MaxBits == 9       \* longest bit string handed to binary_to_text directly
MaxN == 4          \* longest list handed to quantum_bubble_sort
MaxVal == 2        \* list elements and compared integers range over -1..MaxVal

\* Code points used in messages: in contract (0..255) and beyond it.
SampleChars == {0, 65, 255, 256, 1114111}
Vals == (-1)..MaxVal

SeqsUpTo(S, k) == UNION { [1..m -> S] : m \in 0..k }

Messages == SeqsUpTo(SampleChars, MaxLen)
BitStrings == SeqsUpTo({0, 1}, MaxBits)
Lists == SeqsUpTo(Vals, MaxN)

----------------------------------------------------------------------------
(* Python primitives *)

Raise == -1        \* an exception (ValueError) in place of a value

Min(a, b) == IF a < b THEN a ELSE b

\* s[a:b] for 0 <= a, 0 <= b
Slice(s, a, b) == SubSeq(s, a + 1, Min(b, Len(s)))

\* s[::-1]
Reverse(s) == [k \in 1..Len(s) |-> s[Len(s) + 1 - k]]

\* len(range(start, stop, step)) for step >= 1
RangeLen(start, stop, step) ==
    IF stop <= start THEN 0 ELSE (stop - start + step - 1) \div step

\* range(start, stop, step) as the sequence of its values
Range(start, stop, step) ==
    [k \in 1..RangeLen(start, stop, step) |-> start + (k - 1) * step]

\* format(v, 'b'): the binary digits of v >= 0, most significant first
\* (a code point is below 0x110000, so it has at most 21 digits)
FormatB(v) ==
    LET width == CHOOSE w \in 1..21 : (w = 1 \/ 2^(w - 1) <= v) /\ v < 2^w
    IN  [k \in 1..width |-> (v \div 2^(width - k)) % 2]

\* Format08b keeping only the low 8 bits of v
Format08bTruncating(v) ==
    LET digits == FormatB(v % 256)
    IN  [k \in 1..(8 - Len(digits)) |-> 0] \o digits

\* format(v, '08b'): zero-padded on the left to a minimum width of 8
Format08b(v) ==
    LET digits == FormatB(v)
    IN  IF Len(digits) >= 8 THEN digits
        ELSE [k \in 1..(8 - Len(digits)) |-> 0] \o digits

\* the value of the first k digits of byte, most significant first
RECURSIVE IntOfDigits(_, _)
IntOfDigits(byte, k) ==
    IF k = 0 THEN 0 ELSE 2 * IntOfDigits(byte, k - 1) + byte[k]

\* IntBase2 reading the least significant digit first
IntBase2LittleEndian(byte) ==
    IF Len(byte) = 0 THEN Raise ELSE IntOfDigits(Reverse(byte), Len(byte))

\* int(byte, 2): ValueError on the empty string
IntBase2(byte) ==
    IF Len(byte) = 0 THEN Raise ELSE IntOfDigits(byte, Len(byte))

\* chr(v): ValueError outside range(0x110000) (and an error propagates)
Chr(v) == IF v >= 0 /\ v < 1114112 THEN v ELSE Raise

----------------------------------------------------------------------------
(* quantum_text_encoding.py *)

RECURSIVE text_to_binary(_)
text_to_binary(text) ==
    IF text = << >> THEN << >>
    ELSE Format08b(text[1]) \o text_to_binary(Tail(text))

\* binary_to_text decoding the complete 8-bit groups only
binary_to_text_complete_groups(binary) ==
    LET starts == Range(0, Len(binary) - 7, 8)
    IN  [k \in 1..Len(starts) |->
            Chr(IntBase2(Slice(binary, starts[k], starts[k] + 8)))]

\* binary_to_text with the range running one index too far
binary_to_text_inclusive_stop(binary) ==
    LET starts == Range(0, Len(binary) + 1, 8)
    IN  [k \in 1..Len(starts) |->
            Chr(IntBase2(Slice(binary, starts[k], starts[k] + 8)))]

\* the list of chr(int(byte, 2)), one per index of range(0, len(binary), 8)
binary_to_text(binary) ==
    LET starts == Range(0, Len(binary), 8)
    IN  [k \in 1..Len(starts) |->
            Chr(IntBase2(Slice(binary, starts[k], starts[k] + 8)))]

\* whether the result of binary_to_text is an exception
Raises(text) == \E k \in 1..Len(text) : text[k] = Raise

\* BuildCircuit with the X gates on the '0' bits
BuildCircuitInverted(binary_chunk) ==
    [ n_qbits |-> Len(binary_chunk),
      x       |-> { q \in 0..(Len(binary_chunk) - 1) : binary_chunk[q + 1] = 0 } ]

\* the circuit of process_chunk: n_qbits qubits, an X gate on qubit i where
\* bit i is '1', every qubit measured into the classical bit of its index
BuildCircuit(binary_chunk) ==
    [ n_qbits |-> Len(binary_chunk),
      x       |-> { q \in 0..(Len(binary_chunk) - 1) : binary_chunk[q + 1] = 1 } ]

\* one shot of the simulator: the single counts key, whose leftmost character
\* is the classical bit of highest index
Execute(qc) ==
    [k \in 1..qc.n_qbits |-> IF (qc.n_qbits - k) \in qc.x THEN 1 ELSE 0]

\* process_chunk returning the counts key as it is
process_chunk_unreversed(chunk) ==
    LET binary_chunk == text_to_binary(chunk)
        qc           == BuildCircuit(binary_chunk)
        measured     == Execute(qc)
    IN  [ bits |-> measured, qc |-> qc ]

process_chunk(chunk) ==
    LET binary_chunk == text_to_binary(chunk)
        qc           == BuildCircuit(binary_chunk)
        measured     == Execute(qc)
    IN  [ bits |-> Reverse(measured), qc |-> qc ]

\* ChunkStarts with the stop index included
ChunkStartsInclusive(msg, size) == Range(0, Len(msg) + 1, size)

\* the values of i in process_message_chunks: range(0, len(message), chunk_size)
ChunkStarts(msg, size) == Range(0, Len(msg), size)

\* NextChunk slicing message[i:chunk_size]
NextChunkAbsoluteStop(msg, start, size) == Slice(msg, start, size)

\* message[i:i + chunk_size]
NextChunk(msg, start, size) == Slice(msg, start, start + size)

----------------------------------------------------------------------------
(* quantum_sort.py *)

\* quantum_compare with the X gate applied when a >= b
quantum_compare_or_equal(a, b) ==
    LET initial == 0
        qubit   == IF a >= b THEN 1 - initial ELSE initial
        key     == qubit
    IN  key = 1

\* one qubit in |0>, an X gate when a > b, one shot, key compared with '1'
quantum_compare(a, b) ==
    LET initial == 0
        qubit   == IF a > b THEN 1 - initial ELSE initial
        key     == qubit
    IN  key = 1

\* arr.copy(): a new list object with the same content
ListCopy(h, ref) ==
    LET new == ref + 1
    IN  [ heap |-> [r \in DOMAIN h \cup {new} |-> IF r = new THEN h[ref] ELSE h[r]],
          ref  |-> new ]

\* SwapAdjacent as two assignments in sequence: a[p] = a[p + 1]; a[p + 1] = a[p]
SwapAdjacentSequential(a, p) ==
    [a EXCEPT ![p + 1] = a[p + 2]]

\* a[p], a[p + 1] = a[p + 1], a[p]   (p is 0-based)
SwapAdjacent(a, p) ==
    [a EXCEPT ![p + 1] = a[p + 2], ![p + 2] = a[p + 1]]

ArrRef == 1        \* the reference the caller passes as arr

----------------------------------------------------------------------------
(* Initial states: one call of one entry point, with its arguments *)

InitEncoding ==
    /\ prog = "quantum_text_encoding" /\ pc = "chunks"
    /\ message \in Messages /\ chunk_size \in 1..MaxChunk /\ i = 0
    /\ chunks = << >> /\ executed = << >> /\ segments = << >> /\ circuits = << >>
    /\ result_binary = << >> /\ decoded = << >> /\ raised = FALSE
    /\ cmpA = 0 /\ cmpB = 0 /\ cmpRes = FALSE /\ compares = 0
    /\ heap = << << >> >> /\ array_sorted = 0 /\ n = 0 /\ j = 0
    /\ arr0 = << >> /\ returned = 0

InitTextToBinary ==
    /\ prog = "text_to_binary" /\ pc = "call"
    /\ message \in Messages /\ chunk_size = 1 /\ i = 0
    /\ chunks = << >> /\ executed = << >> /\ segments = << >> /\ circuits = << >>
    /\ result_binary = << >> /\ decoded = << >> /\ raised = FALSE
    /\ cmpA = 0 /\ cmpB = 0 /\ cmpRes = FALSE /\ compares = 0
    /\ heap = << << >> >> /\ array_sorted = 0 /\ n = 0 /\ j = 0
    /\ arr0 = << >> /\ returned = 0

InitBinaryToText ==
    /\ prog = "binary_to_text" /\ pc = "call"
    /\ result_binary \in BitStrings
    /\ message = << >> /\ chunk_size = 1 /\ i = 0
    /\ chunks = << >> /\ executed = << >> /\ segments = << >> /\ circuits = << >>
    /\ decoded = << >> /\ raised = FALSE
    /\ cmpA = 0 /\ cmpB = 0 /\ cmpRes = FALSE /\ compares = 0
    /\ heap = << << >> >> /\ array_sorted = 0 /\ n = 0 /\ j = 0
    /\ arr0 = << >> /\ returned = 0

InitCompare ==
    /\ prog = "quantum_compare" /\ pc = "call"
    /\ cmpA \in Vals /\ cmpB \in Vals /\ cmpRes = FALSE /\ compares = 0
    /\ message = << >> /\ chunk_size = 1 /\ i = 0
    /\ chunks = << >> /\ executed = << >> /\ segments = << >> /\ circuits = << >>
    /\ result_binary = << >> /\ decoded = << >> /\ raised = FALSE
    /\ heap = << << >> >> /\ array_sorted = 0 /\ n = 0 /\ j = 0
    /\ arr0 = << >> /\ returned = 0

InitSort ==
    /\ prog = "quantum_bubble_sort" /\ pc = "call"
    /\ arr0 \in Lists /\ heap = << arr0 >>
    /\ array_sorted = 0 /\ n = 0 /\ i = 0 /\ j = 0 /\ returned = 0
    /\ cmpA = 0 /\ cmpB = 0 /\ cmpRes = FALSE /\ compares = 0
    /\ message = << >> /\ chunk_size = 1
    /\ chunks = << >> /\ executed = << >> /\ segments = << >> /\ circuits = << >>
    /\ result_binary = << >> /\ decoded = << >> /\ raised = FALSE

Init ==
    \/ InitEncoding
    \/ InitTextToBinary
    \/ InitBinaryToText
    \/ InitCompare
    \/ InitSort

codecVars == << message, chunk_size, chunks, executed, segments, circuits,
                result_binary, decoded, raised >>
sortVars == << heap, array_sorted, n, j, arr0, returned >>
cmpVars == << cmpA, cmpB, cmpRes, compares >>

----------------------------------------------------------------------------
(* Actions of quantum_text_encoding.py *)

\* one iteration of the loop of process_message_chunks; the iterations done
\* so far are as many as the chunks taken
ProcessChunkIteration ==
    /\ prog = "quantum_text_encoding" /\ pc = "chunks"
    /\ LET starts == ChunkStarts(message, chunk_size)
       IN  /\ Len(chunks) < Len(starts)
           /\ i' = starts[Len(chunks) + 1]
    /\ LET chunk == NextChunk(message, i', chunk_size)
           r     == process_chunk(chunk)
       IN  /\ chunks' = Append(chunks, chunk)
           /\ executed' = Append(executed, r.qc)
           /\ segments' = Append(segments, r.bits)
           /\ result_binary' = result_binary \o r.bits
           /\ circuits' = Append(circuits, r.qc)
    /\ UNCHANGED << prog, pc, message, chunk_size, decoded, raised >>
    /\ UNCHANGED << cmpVars, sortVars >>

\* the range is exhausted: process_message_chunks returns
ProcessChunksReturn ==
    /\ prog = "quantum_text_encoding" /\ pc = "chunks"
    /\ Len(chunks) >= Len(ChunkStarts(message, chunk_size))
    /\ pc' = "decode"
    /\ UNCHANGED << prog, i, codecVars, cmpVars, sortVars >>

\* decoded_message = binary_to_text(result_binary); return decoded_message
DecodeAndReturn ==
    /\ prog = "quantum_text_encoding" /\ pc = "decode"
    /\ LET text == binary_to_text(result_binary)
       IN  IF Raises(text)
           THEN raised' = TRUE /\ decoded' = decoded
           ELSE raised' = FALSE /\ decoded' = text
    /\ pc' = "done"
    /\ UNCHANGED << prog, i, message, chunk_size, chunks, executed, segments,
                    circuits, result_binary >>
    /\ UNCHANGED << cmpVars, sortVars >>

\* a direct call text_to_binary(message)
CallTextToBinary ==
    /\ prog = "text_to_binary" /\ pc = "call"
    /\ result_binary' = text_to_binary(message)
    /\ pc' = "done"
    /\ UNCHANGED << prog, i, message, chunk_size, chunks, executed, segments,
                    circuits, decoded, raised >>
    /\ UNCHANGED << cmpVars, sortVars >>

\* a direct call binary_to_text(result_binary)
CallBinaryToText ==
    /\ prog = "binary_to_text" /\ pc = "call"
    /\ LET text == binary_to_text(result_binary)
       IN  IF Raises(text)
           THEN raised' = TRUE /\ decoded' = decoded
           ELSE raised' = FALSE /\ decoded' = text
    /\ pc' = "done"
    /\ UNCHANGED << prog, i, message, chunk_size, chunks, executed, segments,
                    circuits, result_binary >>
    /\ UNCHANGED << cmpVars, sortVars >>

----------------------------------------------------------------------------
(* Actions of quantum_sort.py *)

\* a direct call quantum_compare(cmpA, cmpB)
CallCompare ==
    /\ prog = "quantum_compare" /\ pc = "call"
    /\ cmpRes' = quantum_compare(cmpA, cmpB)
    /\ compares' = compares + 1
    /\ pc' = "done"
    /\ UNCHANGED << prog, i, cmpA, cmpB, codecVars, sortVars >>

\* n = len(arr); array_sorted = arr.copy()
SortEnter ==
    /\ prog = "quantum_bubble_sort" /\ pc = "call"
    /\ n' = Len(heap[ArrRef])
    /\ LET c == ListCopy(heap, ArrRef)
       IN  heap' = c.heap /\ array_sorted' = c.ref
    /\ i' = 0 /\ j' = 0
    /\ pc' = "loop"
    /\ UNCHANGED << prog, arr0, returned, codecVars, cmpVars >>

\* one iteration of the inner loop: compare, swap when the comparison says so
SortInnerIteration ==
    /\ prog = "quantum_bubble_sort" /\ pc = "loop"
    /\ i < n /\ j < n - i - 1
    /\ LET a == heap[array_sorted]
           x == a[j + 1]
           y == a[j + 2]
           greater == quantum_compare(x, y)
       IN  /\ cmpA' = x /\ cmpB' = y /\ cmpRes' = greater
           /\ heap' = IF greater
                      THEN [heap EXCEPT ![array_sorted] = SwapAdjacent(a, j)]
                      ELSE heap
    /\ compares' = compares + 1
    /\ j' = j + 1
    /\ UNCHANGED << prog, pc, i, array_sorted, n, arr0, returned, codecVars >>

\* the inner range is exhausted: next outer pass
SortNextPass ==
    /\ prog = "quantum_bubble_sort" /\ pc = "loop"
    /\ i < n /\ j >= n - i - 1
    /\ i' = i + 1 /\ j' = 0
    /\ UNCHANGED << prog, pc, heap, array_sorted, n, arr0, returned,
                    codecVars, cmpVars >>

\* the outer range is exhausted: return array_sorted
SortReturn ==
    /\ prog = "quantum_bubble_sort" /\ pc = "loop"
    /\ i >= n
    /\ returned' = array_sorted
    /\ pc' = "done"
    /\ UNCHANGED << prog, i, heap, array_sorted, n, j, arr0, codecVars, cmpVars >>

Next ==
    \/ ProcessChunkIteration
    \/ ProcessChunksReturn
    \/ DecodeAndReturn
    \/ CallTextToBinary
    \/ CallBinaryToText
    \/ CallCompare
    \/ SortEnter
    \/ SortInnerIteration
    \/ SortNextPass
    \/ SortReturn

Spec == Init /\ [][Next]_vars

----------------------------------------------------------------------------
(* Vocabulary of the properties, independent of the definitions above *)

Encoding == prog = "quantum_text_encoding"
Sorting == prog = "quantum_bubble_sort"

InContract(text) == \A k \in 1..Len(text) : text[k] \in 0..255

RECURSIVE Pow2(_)
Pow2(e) == IF e = 0 THEN 1 ELSE 2 * Pow2(e - 1)

\* the unsigned integer a bit string denotes, most significant bit first
RECURSIVE BigEndianValue(_)
BigEndianValue(bits) ==
    IF bits = << >> THEN 0
    ELSE bits[1] * Pow2(Len(bits) - 1) + BigEndianValue(Tail(bits))

\* the number of binary digits of v >= 1
RECURSIVE BitLength(_)
BitLength(v) == IF v < 2 THEN 1 ELSE 1 + BitLength(v \div 2)

\* the digits one character contributes: 8, or more when 8 cannot hold it
DigitsOf(c) == IF c < 256 THEN 8 ELSE BitLength(c)

RECURSIVE DigitsBefore(_, _)
DigitsBefore(text, k) ==
    IF k <= 1 THEN 0 ELSE DigitsBefore(text, k - 1) + DigitsOf(text[k - 1])

RECURSIVE Flatten(_)
Flatten(ss) == IF ss = << >> THEN << >> ELSE Head(ss) \o Flatten(Tail(ss))

CeilDiv(a, b) == (a + b - 1) \div b

IsBitString(bits) == \A k \in 1..Len(bits) : bits[k] \in {0, 1}

IsSorted(a) == \A p \in 1..Len(a) : \A q \in p..Len(a) : a[p] <= a[q]

Occurrences(a, v) == Cardinality({ p \in 1..Len(a) : a[p] = v })

IsPermutation(a, b) ==
    /\ Len(a) = Len(b)
    /\ \A v \in Vals : Occurrences(a, v) = Occurrences(b, v)

\* the p-th smallest element of a (1 <= p <= Len(a))
OrderStatistic(a, p) ==
    CHOOSE v \in { a[q] : q \in 1..Len(a) } :
        /\ Cardinality({ q \in 1..Len(a) : a[q] < v }) < p
        /\ Cardinality({ q \in 1..Len(a) : a[q] <= v }) >= p

----------------------------------------------------------------------------
(* C1: for a message whose code points all lie in 0..255 and any            *)
(* chunk_size >= 1, quantum_text_encoding returns exactly the message.      *)
RoundTripIdentity ==
    (Encoding /\ pc = "done" /\ InContract(message))
        => (~raised /\ decoded = message)

RoundTripWitness ==
    /\ Encoding /\ pc = "done" /\ InContract(message)
    /\ Len(message) = 3 /\ chunk_size = 2 /\ Len(chunks) = 2
    /\ message[1] = 65 /\ message[2] = 255 /\ message[3] = 0
    /\ decoded = message

(* C2: the bit string returned by process_message_chunks is the same for    *)
(* every chunk_size >= 1 (so for 1 and for len(s)) and is                   *)
(* text_to_binary(message).                                                 *)
ChunkingInvariance ==
    (Encoding /\ pc \in {"decode", "done"})
        => result_binary = text_to_binary(message)

ChunkingInvarianceWitness ==
    /\ Encoding /\ pc = "decode"
    /\ Len(message) = 3 /\ chunk_size = 1 /\ Len(chunks) = 3
    /\ message[1] = 65 /\ message[2] = 256
    /\ result_binary = text_to_binary(message)

(* C3 as stated: text_to_binary gives exactly 8 bits per character, the     *)
(* big-endian representation of (code point mod 256), so 8 * len(text) bits *)
(* for any text.                                                            *)
EightBitsPerCharacter ==
    (prog = "text_to_binary" /\ pc = "done")
        => /\ Len(result_binary) = 8 * Len(message)
           /\ \A k \in 1..Len(message) :
                BigEndianValue(SubSeq(result_binary, 8 * k - 7, 8 * k))
                    = message[k] % 256

(* C3 amended: each character contributes the big-endian binary digits of   *)
(* its whole code point, zero-padded on the left to at least 8 digits:      *)
(* exactly 8 bits for code points 0..255, and as many bits as the code      *)
(* point has for larger ones; 'A' gives 01000001.                           *)
MinimumEightBitsPerCharacter ==
    (prog = "text_to_binary" /\ pc = "done")
        => /\ IsBitString(result_binary)
           /\ Len(result_binary) = DigitsBefore(message, Len(message) + 1)
           /\ \A k \in 1..Len(message) :
                LET from == DigitsBefore(message, k)
                IN  BigEndianValue(SubSeq(result_binary, from + 1,
                                          from + DigitsOf(message[k])))
                        = message[k]
           /\ InContract(message) => Len(result_binary) = 8 * Len(message)
           /\ message = << 65 >>
                => result_binary = << 0, 1, 0, 0, 0, 0, 0, 1 >>

MinimumEightBitsWitness ==
    /\ prog = "text_to_binary" /\ pc = "done"
    /\ message = << 65, 256 >>
    /\ Len(result_binary) = 17

(* C4 as stated: binary_to_text decodes only complete 8-bit groups; a       *)
(* trailing partial group is dropped, so the result has floor(len / 8)      *)
(* characters and a 7-bit string decodes to the empty string.               *)
PartialGroupDropped ==
    (prog = "binary_to_text" /\ pc = "done")
        => /\ ~raised
           /\ Len(decoded) = Len(result_binary) \div 8
           /\ \A k \in 1..Len(decoded) :
                decoded[k] = BigEndianValue(SubSeq(result_binary, 8 * k - 7, 8 * k))

(* C4 amended: binary_to_text decodes every group of up to 8 bits; a        *)
(* trailing partial group is decoded as the unsigned integer its bits       *)
(* denote, so the result has ceil(len / 8) characters and the 7-bit string  *)
(* 0100000 decodes to the one character of code point 32.                   *)
PartialGroupDecoded ==
    (prog = "binary_to_text" /\ pc = "done")
        => /\ ~raised
           /\ Len(decoded) = CeilDiv(Len(result_binary), 8)
           /\ \A k \in 1..Len(decoded) :
                LET to == IF 8 * k <= Len(result_binary)
                          THEN 8 * k ELSE Len(result_binary)
                IN  decoded[k] = BigEndianValue(SubSeq(result_binary, 8 * k - 7, to))
           /\ result_binary = << 0, 1, 0, 0, 0, 0, 0 >> => decoded = << 32 >>

PartialGroupWitness ==
    /\ prog = "binary_to_text" /\ pc = "done"
    /\ result_binary = << 0, 1, 0, 0, 0, 0, 0, 1, 1 >>
    /\ decoded = << 65, 1 >>

(* C5: for a non-empty chunk, process_chunk puts an X gate on qubit q       *)
(* exactly where bit q of text_to_binary(chunk) is 1, the executor reads    *)
(* the prepared bits back in reversed order, and the bit string returned is *)
(* text_to_binary(chunk); prepare, measure, reverse is the identity on      *)
(* every bit vector.                                                        *)
PrepareMeasureReverse ==
    /\ Encoding =>
         \A k \in 1..Len(chunks) :
            LET bits == text_to_binary(chunks[k])
                qc   == executed[k]
            IN  chunks[k] # << >> =>
                  /\ qc.n_qbits = Len(bits)
                  /\ \A q \in 0..(Len(bits) - 1) : (q \in qc.x) <=> (bits[q + 1] = 1)
                  /\ \A q \in 1..Len(bits) :
                        Execute(qc)[q] = bits[Len(bits) + 1 - q]
                  /\ segments[k] = bits
    /\ (prog = "binary_to_text" /\ result_binary # << >>) =>
         Reverse(Execute(BuildCircuit(result_binary))) = result_binary

PrepareMeasureReverseWitness ==
    /\ Encoding /\ Len(chunks) = 1
    /\ chunks[1] = << 65, 0 >>
    /\ executed[1].n_qbits = 16 /\ executed[1].x = {1, 7}
    /\ Execute(executed[1]) = << 0, 0, 0, 0, 0, 0, 0, 0, 1, 0, 0, 0, 0, 0, 1, 0 >>
    /\ segments[1] = << 0, 1, 0, 0, 0, 0, 0, 1, 0, 0, 0, 0, 0, 0, 0, 0 >>

(* C6: for the empty message process_message_chunks processes no chunk      *)
(* (the executor is never called, circuits and the bit string stay empty)   *)
(* and quantum_text_encoding returns the empty string.                      *)
EmptyMessage ==
    (Encoding /\ message = << >>)
        => /\ chunks = << >> /\ executed = << >> /\ circuits = << >>
           /\ result_binary = << >>
           /\ ~raised
           /\ pc = "done" => decoded = << >>

EmptyMessageWitness ==
    /\ Encoding /\ message = << >> /\ pc = "done"
    /\ executed = << >> /\ decoded = << >>

(* C7: quantum_compare(a, b) returns True exactly when a > b, and False     *)
(* when a <= b, a = b included.                                             *)
CompareIsGreaterThan ==
    compares > 0 => (cmpRes <=> (cmpA > cmpB))

CompareWitness ==
    /\ prog = "quantum_compare" /\ pc = "done"
    /\ cmpA = cmpB /\ cmpRes = FALSE

(* C8: process_message_chunks cuts the message left to right into           *)
(* ceil(len / chunk_size) contiguous chunks whose concatenation is the      *)
(* message, each of length chunk_size but possibly the last, which is       *)
(* shorter and not empty; the chunks go to the executor one after another   *)
(* in that order, and the k-th circuit and the k-th segment of the bit      *)
(* string belong to the k-th chunk.                                         *)
ChunksPartitionInOrder ==
    Encoding =>
        LET total == CeilDiv(Len(message), chunk_size)
            done  == Len(chunks)
        IN  /\ done <= total
            /\ pc # "chunks" => done = total /\ Flatten(chunks) = message
            /\ Len(executed) = done /\ Len(circuits) = done /\ Len(segments) = done
            /\ \A k \in 1..done :
                 LET from == (k - 1) * chunk_size
                     to   == IF k * chunk_size <= Len(message)
                             THEN k * chunk_size ELSE Len(message)
                 IN  /\ chunks[k] = SubSeq(message, from + 1, to)
                     /\ Len(chunks[k]) >= 1
                     /\ k < total => Len(chunks[k]) = chunk_size
                     /\ k = total => Len(chunks[k]) <= chunk_size
                     /\ circuits[k] = executed[k]
                     /\ circuits[k].n_qbits = DigitsBefore(chunks[k], Len(chunks[k]) + 1)
                     /\ Len(segments[k]) = circuits[k].n_qbits
                     /\ \A q \in 1..Len(segments[k]) :
                            (segments[k][q] = 1) <=> ((q - 1) \in circuits[k].x)
            /\ result_binary = Flatten(segments)

ChunksPartitionWitness ==
    /\ Encoding /\ pc = "decode"
    /\ message = << 65, 255, 256 >> /\ chunk_size = 2
    /\ chunks = << << 65, 255 >>, << 256 >> >>
    /\ circuits[2].n_qbits = 9 /\ circuits[2].x = {0}

(* C9: for any message, code points above 255 included, and any             *)
(* chunk_size >= 1 the pipeline runs to its end and returns a string        *)
(* without raising; a message out of contract only comes back as a          *)
(* different text.                                                          *)
PipelineNeverRaises ==
    Encoding =>
        /\ ~raised
        /\ pc \in {"chunks", "decode", "done"}
        /\ pc = "chunks" =>
             \/ Len(chunks) < Len(ChunkStarts(message, chunk_size))
             \/ ENABLED ProcessChunksReturn
        /\ pc = "decode" => ENABLED DecodeAndReturn
        /\ pc = "done" =>
             /\ \A k \in 1..Len(decoded) : decoded[k] \in 0..1114111
             /\ ~InContract(message) => decoded # message

PipelineNeverRaisesWitness ==
    /\ Encoding /\ pc = "done" /\ ~raised
    /\ message = << 256 >>
    /\ decoded = << 128, 0 >>

(* C10: quantum_bubble_sort ends after exactly n(n-1)/2 calls of            *)
(* quantum_compare and returns a list in non-decreasing order that is a     *)
(* permutation of arr; the caller's list is left as it was; after outer     *)
(* pass i the last i + 1 positions hold their final values.                 *)
BubbleSortCorrect ==
    Sorting =>
        /\ heap[ArrRef] = arr0
        /\ pc # "done" => ENABLED Next
        /\ pc = "loop" =>
             /\ n = Len(arr0)
             /\ 2 * compares <= n * (n - 1)
             /\ IsPermutation(heap[array_sorted], arr0)
             /\ \A p \in 1..n :
                    p > n - i => heap[array_sorted][p] = OrderStatistic(arr0, p)
             /\ (i < n /\ j >= n - i - 1) =>
                    \A p \in 1..n :
                        p > n - (i + 1) =>
                            heap[array_sorted][p] = OrderStatistic(arr0, p)
        /\ pc = "done" =>
             /\ 2 * compares = n * (n - 1)
             /\ returned # ArrRef
             /\ IsSorted(heap[returned])
             /\ IsPermutation(heap[returned], arr0)

BubbleSortWitness ==
    /\ Sorting /\ pc = "done"
    /\ arr0 = << 2, 1, 2, -1 >>
    /\ heap[returned] = << -1, 1, 2, 2 >>
    /\ heap[ArrRef] = << 2, 1, 2, -1 >>
    /\ compares = 6

====
